---- MODULE Spec2Model ----
(***************************************************************************)
(* The SOM engine (models/som/SOM.py) and the Hebbian associator           *)
(* (models/som/HebbianModel.py) as state machines.                         *)
(*                                                                         *)
(* Numbers are fixed point.  Feature values and SOM weights are integers   *)
(* counted in tenths (10 is 1.0); activations and Hebbian matrix entries   *)
(* are integers counted in thousandths (Unit is 1.0).  NaN and Inf are the *)
(* two IEEE specials the code can produce (0.0/0.0 and 1/0.0 in numpy).    *)
(* A TensorFlow session is a flag: leaving a `with self._sess:` block      *)
(* closes the session, and Session.run on a closed session raises          *)
(* RuntimeError.                                                           *)
(***************************************************************************)
EXTENDS Integers, Sequences, FiniteSets, TLC

VARIABLES som, ckpt, heb, ret, buf

vars == <<som, ckpt, heb, ret, buf>>

(* ------------------------------ bounds -------------------------------- *)
MaxM == 2
MaxN == 2
MaxFeat == 1
MaxLen == 3
MaxSeed == 1
BatchSize == 2

(* ------------------------- program constants -------------------------- *)
NIterations == 50
AlphaTenths == 3
ThresholdMilli == 600
TauNum == 1
TauDen == 2

SOMs == {"a", "v"}
Unit == 10 * 10 * 10
NaN == 0 - 1
Inf == 0 - 2
FeatureValues == {0, 10}

(* ------------------------------ numerics ------------------------------ *)
Abs(x) == IF x < 0 THEN 0 - x ELSE x
Max2(x, y) == IF x >= y THEN x ELSE y
Min2(x, y) == IF x <= y THEN x ELSE y
RoundDiv(a, b) == (2 * a + b) \div (2 * b)
CeilDiv(a, b) == (a + b - 1) \div b
IsSpecial(x) == x = NaN \/ x = Inf

RECURSIVE SeqSum(_)
SeqSum(s) == IF s = <<>> THEN 0 ELSE Head(s) + SeqSum(Tail(s))

(* exp(-k/10) in thousandths, k = 0..100; below one thousandth it is 0 *)
ExpTable ==
  << 1000, 905, 819, 741, 670, 607, 549, 497, 449, 407,
     368, 333, 301, 273, 247, 223, 202, 183, 165, 150,
     135, 122, 111, 100, 91, 82, 74, 67, 61, 55,
     50, 45, 41, 37, 33, 30, 27, 25, 22, 20,
     18, 17, 15, 14, 12, 11, 10, 9, 8, 7,
     7, 6, 6, 5, 5, 4, 4, 3, 3, 3,
     2, 2, 2, 2, 2, 2, 1, 1, 1, 1,
     1, 1, 1, 1, 1, 1, 1, 0, 0, 0,
     0, 0, 0, 0, 0, 0, 0, 0, 0, 0,
     0, 0, 0, 0, 0, 0, 0, 0, 0, 0,
     0 >>
ExpNeg(k) == IF k < 0 THEN Unit ELSE IF k >= Len(ExpTable) THEN 0 ELSE ExpTable[k + 1]

AbsDiffSum(x, w) == SeqSum([c \in 1..Len(w) |-> Abs(x[c] - w[c])])
SqDist(x, w) == SeqSum([c \in 1..Len(w) |-> (x[c] - w[c]) * (x[c] - w[c])])

(* a variant that keeps the last of several least entries *)
ArgMinLast(f) == CHOOSE i \in 1..Len(f) :
                   /\ \A j \in 1..Len(f) : f[i] <= f[j]
                   /\ \A j \in (i + 1)..Len(f) : f[j] > f[i]

(* lowest index (1-based) at which f, a sequence of integers, is least *)
ArgMinFirst(f) == CHOOSE i \in 1..Len(f) :
                    /\ \A j \in 1..Len(f) : f[i] <= f[j]
                    /\ \A j \in 1..(i - 1) : f[j] > f[i]

Vectors(d) == [1..d -> FeatureValues]
VectorLists(d) == UNION {[1..k -> Vectors(d)] : k \in 1..MaxLen}

(* ----------------------------- SOM engine ----------------------------- *)
None == "None"

(* a variant that walks range(m) twice *)
neuron_locations_square(m, n) == [k \in 1..(m * m) |-> <<(k - 1) \div m, (k - 1) % m>>]

(* lines 233-242: row-major raster of the grid, one location per neuron *)
neuron_locations(m, n) == [k \in 1..(m * n) |-> <<(k - 1) \div n, (k - 1) % n>>]

(* tf.random_normal([m*n, dim]): one of a few grids, picked by the seed *)
random_normal(rows, dim, seed) ==
  [i \in 1..rows |-> [c \in 1..dim |->
      IF (seed \div (1 + ((i + c) % 2))) % 2 = 1 THEN 10 ELSE 0]]

NoSOM ==
  [built |-> FALSE, m |-> 0, n |-> 0, dim |-> 0,
   weightage_vects |-> <<>>, location_vects |-> <<>>,
   has_snapshot |-> FALSE, weightages |-> <<>>, locations |-> <<>>,
   trained |-> FALSE, sess_open |-> FALSE,
   train_inter_class_distance |-> None, test_inter_class_distance |-> None]

SOM_new(m, n, dim, seed) ==
  [built |-> TRUE, m |-> m, n |-> n, dim |-> dim,
   weightage_vects |-> random_normal(m * n, dim, seed),
   location_vects |-> neuron_locations(m, n),
   has_snapshot |-> FALSE, weightages |-> <<>>, locations |-> <<>>,
   trained |-> FALSE, sess_open |-> TRUE,
   train_inter_class_distance |-> None, test_inter_class_distance |-> None]

VecHasNaN(x) == \E c \in 1..Len(x) : x[c] = NaN

(* tf.argmin over squared distances to the weight variable (CPU kernel:    *)
(* first minimum; a NaN distance is never below the running minimum, so it *)
(* is passed over, and index 0 stands when every distance is NaN)          *)
get_bmu(W, x) ==
  LET finite == {i \in 1..Len(W) : ~VecHasNaN(x) /\ ~VecHasNaN(W[i])}
  IN IF finite = 1..Len(W) THEN ArgMinFirst([i \in 1..Len(W) |-> SqDist(x, W[i])])
     ELSE IF finite = {} THEN 1
     ELSE CHOOSE i \in finite :
            \A j \in finite : /\ SqDist(x, W[i]) <= SqDist(x, W[j])
                              /\ j < i => SqDist(x, W[j]) > SqDist(x, W[i])

get_bmu_distances(locs, b) ==
  [i \in 1..Len(locs) |-> (locs[i][1] - locs[b][1]) * (locs[i][1] - locs[b][1])
                        + (locs[i][2] - locs[b][2]) * (locs[i][2] - locs[b][2])]

(* exp(-d2 / sigma(t)^2), sigma = max(m, n) / 2, sigma(t) = sigma*(1-t/T) *)
neighbourhood_func(st, d2, t) ==
  LET mx == Max2(st.m, st.n)
      T == NIterations
  IN ExpNeg(RoundDiv(10 * d2 * 4 * T * T, mx * mx * (T - t) * (T - t)))

(* mean over the batch of alpha(t) * neighbourhood * (input - weight) *)
get_weight_delta(st, batch, t) ==
  LET W == st.weightage_vects
      T == NIterations
      nb(i, x) == neighbourhood_func(st,
                     get_bmu_distances(st.location_vects, get_bmu(W, x))[i], t)
  IN [i \in 1..Len(W) |-> [c \in 1..st.dim |->
        IF Len(batch) = 0 THEN NaN
        ELSE IF W[i][c] = NaN \/ \E b \in 1..Len(batch) : batch[b][c] = NaN THEN NaN
        ELSE RoundDiv(
               SeqSum([b \in 1..Len(batch) |->
                  AlphaTenths * (T - t) * nb(i, batch[b]) * (batch[b][c] - W[i][c])]),
               10 * T * Unit * Len(batch))]]

HasNaN(M) == \E i \in 1..Len(M) : \E c \in 1..Len(M[i]) : M[i][c] = NaN

AddDelta(W, D) ==
  [i \in 1..Len(W) |-> [c \in 1..Len(W[i]) |->
      IF W[i][c] = NaN \/ D[i][c] = NaN THEN NaN ELSE W[i][c] + D[i][c]]]

(* lines 481-494: with the baseline field None, `None += norm` and `None /= *)
(* len(xs)` raise TypeError; with a number in it, line 492 divides a list  *)
(* by it, which raises TypeError as well                                   *)
class_compactness(st, train) ==
  LET cached == IF train THEN st.train_inter_class_distance
                ELSE st.test_inter_class_distance
  IN [outcome |-> "TypeError", at |-> IF cached = None THEN 489 ELSE 492]

(* lines 285-313: the diagnostics and the summary feed of one epoch *)
run_summaries(st, has_classes, has_test_classes) ==
  LET cc_train == IF has_classes THEN class_compactness(st, TRUE).outcome ELSE "ok"
      cc_test == IF has_test_classes THEN class_compactness(st, TRUE).outcome ELSE "ok"
  IN IF cc_train # "ok" THEN cc_train
     ELSE IF cc_test # "ok" THEN cc_test
     ELSE IF ~has_classes \/ ~has_test_classes THEN "NameError"
     ELSE "ok"

Batch(vects, i) ==
  SubSeq(vects, Min2(BatchSize * i + 1, Len(vects) + 1), Min2(BatchSize * (i + 1), Len(vects)))

(* one pass of the epoch loop and the code after it; the result carries   *)
(* the engine, how the call ended, the epochs completed and the           *)
(* checkpoints written                                                     *)
(* lines 265-276: the value of count when the batch loop is left; the      *)
(* break of line 276 leaves it at the end of the first pass                *)
batches_run(num_batches) == IF num_batches >= 1 THEN 1 ELSE 0

RECURSIVE train_loop(_, _, _, _, _, _, _)
train_loop(st, vects, has_classes, has_test_classes, iter_no, saved, counts) ==
  LET stop(s, how, cs) == [st |-> s, outcome |-> how, epochs |-> iter_no,
                           saved |-> saved, counts |-> cs]
  IN
  IF iter_no >= NIterations
  THEN IF ~st.has_snapshot THEN stop(st, "AttributeError", counts)
       ELSE IF NIterations = 0 THEN stop(st, "NameError", counts)
       ELSE [st |-> [st EXCEPT !.trained = TRUE], outcome |-> "ok",
             epochs |-> iter_no, counts |-> counts,
             saved |-> Append(saved, [epoch |-> iter_no, final |-> TRUE,
                                      w |-> st.weightage_vects])]
  ELSE
    LET check == iter_no % 5 = 0
        num_batches == CeilDiv(Len(vects), BatchSize)
        delta == get_weight_delta(st, Batch(vects, 0), iter_no)
        count == batches_run(num_batches)
        updated == IF count >= 1
                   THEN [st EXCEPT !.weightage_vects = AddDelta(st.weightage_vects, delta)]
                   ELSE st
        snap == [updated EXCEPT !.has_snapshot = TRUE,
                                !.weightages = updated.weightage_vects,
                                !.locations = updated.location_vects]
        summ == run_summaries(snap, has_classes, has_test_classes)
    IN
    IF check /\ ~st.sess_open THEN stop(st, "RuntimeError", counts)
    ELSE IF check /\ HasNaN(get_weight_delta(st, SubSeq(vects, 1, 1), iter_no))
         THEN stop(st, "AssertionError", counts)
    ELSE IF num_batches >= 1 /\ ~st.sess_open THEN stop(st, "RuntimeError", counts)
    ELSE IF summ # "ok" THEN stop(snap, summ, Append(counts, count))
    ELSE train_loop(snap, vects, has_classes, has_test_classes, iter_no + 1,
                    IF check
                    THEN Append(saved, [epoch |-> iter_no, final |-> FALSE,
                                        w |-> snap.weightage_vects])
                    ELSE saved,
                    Append(counts, count))

train(st, vects, has_classes, has_test_classes) ==
  LET r == train_loop(st, vects, has_classes, has_test_classes, 0, <<>>, <<>>)
  IN [r EXCEPT !.st = [r.st EXCEPT !.sess_open = FALSE]]

restore_trained(st, present, w) ==
  IF ~present THEN [st |-> st, outcome |-> "ok", value |-> FALSE]
  ELSE IF ~st.sess_open THEN [st |-> st, outcome |-> "RuntimeError", value |-> FALSE]
  ELSE [st |-> [st EXCEPT !.weightage_vects = w,
                          !.has_snapshot = TRUE,
                          !.weightages = w,
                          !.locations = st.location_vects,
                          !.trained = TRUE,
                          !.sess_open = FALSE],
        outcome |-> "ok", value |-> TRUE]

NoValue == <<>>

get_BMU(st, x) ==
  IF ~st.has_snapshot THEN [outcome |-> "AttributeError", value |-> NoValue]
  ELSE LET min_index == ArgMinFirst([i \in 1..Len(st.weightages) |->
                                        SqDist(x, st.weightages[i])])
       IN [outcome |-> "ok", value |-> <<min_index - 1, st.locations[min_index]>>]

(* lines 468-495 as a call of its own on examples xs with labels ys.       *)
(* 469-479: a class with two examples asks get_BMU for their positions     *)
(* (AttributeError without a snapshot) and adds their distance to          *)
(* intra_class_distance[y], a list with one entry per distinct label       *)
(* (IndexError for a label that is not below their number); classes are    *)
(* walked in increasing label order. 481-490: the cache field, which only  *)
(* lines 150-151 ever assign, is None, so `None += norm` (two examples or  *)
(* more) or `None /= len(xs)` raises TypeError; no line stores a baseline, *)
(* and line 495 is never reached                                           *)
class_compactness_on(st, xs, ys, train_split) ==
  LET labels == {ys[i] : i \in 1..Len(ys)}
      paired == {y \in labels : Cardinality({i \in 1..Len(ys) : ys[i] = y}) >= 2}
      cached == IF train_split THEN st.train_inter_class_distance
                ELSE st.test_inter_class_distance
      raise(how) == [st |-> st, outcome |-> how, value |-> NoValue]
  IN IF paired # {} /\ get_BMU(st, xs[1]).outcome # "ok"
     THEN raise(get_BMU(st, xs[1]).outcome)
     ELSE IF \E y \in paired : y >= Cardinality(labels) /\ \A z \in paired : z >= y
     THEN raise("IndexError")
     ELSE IF cached = None THEN raise("TypeError")
     ELSE raise("TypeError")

map_vects(st, vects) ==
  IF ~st.trained THEN [outcome |-> "ValueError", value |-> NoValue]
  ELSE [outcome |-> "ok",
        value |-> [k \in 1..Len(vects) |->
                     st.locations[ArgMinFirst([i \in 1..Len(st.weightages) |->
                                                 SqDist(vects[k], st.weightages[i])])]]]

(* ---------------------- population based convergence ------------------ *)
Col(M, c) == [i \in 1..Len(M) |-> M[i][c]]
SumSq(s) == SeqSum([i \in 1..Len(s) |-> s[i] * s[i]])
(* len(s)^2 * np.var(s) *)
VarNum(s) == Len(s) * SumSq(s) - SeqSum(s) * SeqSum(s)

(* line 520: norm.ppf(0.95) = 1.6449, squared, in hundredths *)
ZSquaredCenti == 271

(* line 530: fisher_f.ppf(0.95, dfn, dfd) in hundredths, row dfn = 1..4,   *)
(* column dfd = 1..9; with no degree of freedom scipy gives nan            *)
FisherTable ==
  << <<16145, 1851, 1013, 771, 661, 599, 559, 532, 512>>,
     <<19950, 1900, 955, 694, 579, 514, 474, 446, 426>>,
     <<21571, 1916, 928, 659, 541, 476, 435, 407, 386>>,
     <<22458, 1925, 912, 639, 519, 453, 412, 384, 363>> >>
fisher_f_ppf(dfn, dfd) == IF dfn < 1 \/ dfd < 1 THEN NaN ELSE FisherTable[dfn][dfd]

(* lines 521-526: the features c with mean_stat[c] < 0, i.e.               *)
(* (mean_x - mean_w)^2 < z^2 * (var_x / n1 + var_w / n2), both sides       *)
(* multiplied by n1^3 * n2^3                                               *)
mean_converged(xs, weights) ==
  {c \in 1..Len(weights[1]) :
     LET x == Col(xs, c)
         w == Col(weights, c)
         n1 == Len(xs)
         n2 == Len(weights)
         diff == SeqSum(x) * n2 - SeqSum(w) * n1
     IN diff * diff * n1 * n2 * 100
          < ZSquaredCenti * (VarNum(x) * n2 * n2 * n2 + VarNum(w) * n1 * n1 * n1)}

(* lines 530-537: the features c with var_stat[c] = 1: the ratio           *)
(* var_x / var_w lies between 1/F and F; a nan F, or a ratio that is inf   *)
(* or nan (var_w = 0), fails both comparisons                              *)
var_converged(xs, weights) ==
  {c \in 1..Len(weights[1]) :
     LET vx == VarNum(Col(xs, c)) * Len(weights) * Len(weights)
         vw == VarNum(Col(weights, c)) * Len(xs) * Len(xs)
         F == fisher_f_ppf(Len(xs) - 1, Len(weights) - 1)
     IN /\ F # NaN
        /\ vw > 0
        /\ 100 * vx <= F * vw
        /\ F * vx >= 100 * vw}

(* len(np.intersect1d(ar1, ar2, assume_unique=True)): the two arrays are   *)
(* concatenated and sorted, and every element equal to its successor is    *)
(* returned                                                                *)
intersect1d_len(ar1, ar2) ==
  Len(ar1) + Len(ar2)
    - Cardinality({ar1[i] : i \in 1..Len(ar1)} \cup {ar2[i] : i \in 1..Len(ar2)})

(* lines 498-548; the value holds the three numerators and the common      *)
(* denominator len(neuron_feature_mean)                                    *)
population_based_convergence(st, xs) ==
  IF ~st.sess_open THEN [outcome |-> "RuntimeError", value |-> NoValue]
  ELSE LET weights == st.weightage_vects
           (* line 527: np.where(mean_stat[mean_stat < 0])[0], the positions *)
           (* of the nonzero entries of the compressed array                *)
           mean_pos_converged ==
             [i \in 1..Cardinality(mean_converged(xs, weights)) |-> i - 1]
           (* line 538: var_stat[var_stat != 0], the entries themselves *)
           var_pos_converged ==
             [i \in 1..Cardinality(var_converged(xs, weights)) |-> 1]
       IN [outcome |-> "ok",
           value |-> <<Len(mean_pos_converged), Len(var_pos_converged),
                       intersect1d_len(mean_pos_converged, var_pos_converged),
                       Len(weights[1])>>]

(* min/max of a raw activation vector; Inf (1/0.0) is above every number *)
MaxOf(a) == IF \E i \in 1..Len(a) : a[i] = Inf THEN Inf
            ELSE CHOOSE v \in {a[i] : i \in 1..Len(a)} : \A j \in 1..Len(a) : a[j] <= v
MinOf(a) == IF \A i \in 1..Len(a) : a[i] = Inf THEN Inf
            ELSE CHOOSE v \in {a[i] : i \in 1..Len(a)} \ {Inf} :
                   \A j \in 1..Len(a) : a[j] = Inf \/ v <= a[j]

(* line 440: (activations - min_) / float(max_ - min_), elementwise in     *)
(* numpy: 0.0/0.0 and inf/inf and inf-inf are NaN, x/inf is 0              *)
normalize_by(a, max_, min_) ==
  [i \in 1..Len(a) |->
     IF max_ = Inf THEN (IF a[i] = Inf \/ min_ = Inf THEN NaN ELSE 0)
     ELSE IF max_ = min_ THEN NaN
     ELSE RoundDiv((a[i] - min_) * Unit, max_ - min_)]

normalize_activations(a) == normalize_by(a, MaxOf(a), MinOf(a))

(* x < threshold in numpy: False for NaN and for Inf *)
Below(x, thr) == ~IsSpecial(x) /\ x < thr

(* a variant that shrinks the entries it keeps by the threshold *)
threshold_activation_shrink(x, thr) ==
  [i \in 1..Len(x) |-> IF Below(x[i], thr) THEN 0
                       ELSE IF IsSpecial(x[i]) THEN x[i] ELSE x[i] - thr]

(* lines 441-443 of SOM.py and HebbianModel.threshold_activation *)
threshold_activation(x, thr) == [i \in 1..Len(x) |-> IF Below(x[i], thr) THEN 0 ELSE x[i]]

raw_activation(st, x, i, mode) ==
  LET s == AbsDiffSum(x, st.weightages[i])
  IN IF mode = "exp" THEN ExpNeg(RoundDiv(s * TauDen, st.dim * TauNum))
     ELSE IF s = 0 THEN Inf ELSE RoundDiv(10 * Unit, s)

get_activations(st, x, normalize, threshold, mode) ==
  IF ~st.has_snapshot THEN [outcome |-> "AttributeError", value |-> NoValue]
  ELSE LET raw == [i \in 1..Len(st.weightages) |-> raw_activation(st, x, i, mode)]
           normed == IF normalize THEN normalize_activations(raw) ELSE raw
           acts == IF threshold THEN threshold_activation(normed, ThresholdMilli)
                   ELSE normed
       IN [outcome |-> "ok", value |-> <<acts, st.locations>>]

(* ------------------------- SOM engine actions ------------------------- *)
(* a variant in which the flag is assigned on the class, where every       *)
(* instance reads it                                                       *)
set_on_class(engines, s, st) ==
  [e \in DOMAIN engines |->
     IF e = s THEN st
     ELSE [engines[e] EXCEPT !.trained = @ \/ (engines[e].built /\ st.trained)]]

(* line 41 declares _trained = False on the class; lines 327 and 351       *)
(* assign self._trained, which binds the attribute on the one instance:    *)
(* what a method changes is the engine it was called on                    *)
set_on_instance(engines, s, st) == [engines EXCEPT ![s] = st]

NoCkpt == [present |-> FALSE, data |-> <<>>]
OnDisk == [present |-> TRUE, data |-> <<>>]

(* what a checkpoint found on disk holds: what this run saved, or, for one *)
(* left by an earlier run, any grid of the engine's shape                  *)
CkptContents(st, ck) ==
  IF ck.data # <<>> THEN {ck.data}
  ELSE {random_normal(st.m * st.n, st.dim, seed) : seed \in 0..MaxSeed}

Modes == {"exp", "linear"}

SOM_init(s) ==
  /\ ~som[s].built
  /\ \E m \in 1..MaxM, n \in 1..MaxN, d \in 1..MaxFeat, seed \in 0..MaxSeed :
       /\ som' = [som EXCEPT ![s] = SOM_new(m, n, d, seed)]
       /\ ret' = [op |-> "SOM_init", on |-> s, arg |-> <<m, n, d>>,
                  outcome |-> "ok", value |-> NoValue]
  /\ UNCHANGED <<ckpt, heb, buf>>

(* lines 44-207 check none of m, n, dim. A negative dim, or a negative m*n, *)
(* gives tf.random_normal (102-103) no fully defined shape and tf.Variable *)
(* raises ValueError; with m <= 0 or n <= 0 _neuron_locations (233-242)    *)
(* yields nothing, the location constant (107-108) has shape (0,), the     *)
(* difference of line 220 has rank 2, and its reduce_sum over axis 2       *)
(* raises ValueError while the graph is built (line 178). dim = 0 with a   *)
(* positive grid passes every line.                                        *)
construct(m, n, dim, seed) ==
  IF dim < 0 \/ m <= 0 \/ n <= 0
  THEN [outcome |-> "ValueError", st |-> NoSOM]
  ELSE [outcome |-> "ok", st |-> SOM_new(m, n, dim, seed)]

(* a construction with any integers as m, n and dim *)
SOM_init_any(s) ==
  /\ ~som[s].built
  /\ \E m \in (0 - 1)..MaxM, n \in (0 - 1)..MaxN, d \in (0 - 1)..MaxFeat,
        seed \in 0..MaxSeed :
       \E r \in {construct(m, n, d, seed)} :
          /\ som' = [som EXCEPT ![s] = r.st]
          /\ ret' = [op |-> "SOM_init", on |-> s, arg |-> <<m, n, d>>,
                     outcome |-> r.outcome, value |-> NoValue]
  /\ UNCHANGED <<ckpt, heb, buf>>

SOM_train_on(s, input_vects) ==
  /\ som[s].built
  /\ \E vects \in input_vects, has_classes \in BOOLEAN,
        has_test_classes \in BOOLEAN :
       \E r \in {train(som[s], vects, has_classes, has_test_classes)} :
          /\ som' = set_on_instance(som, s, r.st)
          /\ ckpt' = IF r.saved = <<>> THEN ckpt
                     ELSE [ckpt EXCEPT ![s] = [present |-> TRUE,
                                               data |-> r.saved[Len(r.saved)].w]]
          /\ ret' = [op |-> "SOM_train", on |-> s,
                     arg |-> <<has_classes, has_test_classes, Len(vects)>>,
                     outcome |-> r.outcome,
                     value |-> <<r.epochs, [k \in 1..Len(r.saved) |-> r.saved[k].epoch],
                                 r.counts>>]
  /\ UNCHANGED <<heb, buf>>

SOM_train(s) == SOM_train_on(s, VectorLists(som[s].dim))

(* a call whose input vectors may hold NaN features *)
NaNVectorLists(d) ==
  UNION {[1..k -> [1..d -> FeatureValues \cup {NaN}]] : k \in 1..MaxLen}

SOM_train_nan(s) == SOM_train_on(s, NaNVectorLists(som[s].dim))

(* a call on a single input vector *)
SOM_train_single(s) ==
  SOM_train_on(s, {vs \in VectorLists(som[s].dim) : Len(vs) = 1})

SOM_population_based_convergence(s) ==
  /\ som[s].built
  /\ \E xs \in VectorLists(som[s].dim) :
       \E r \in {population_based_convergence(som[s], xs)} :
          ret' = [op |-> "SOM_population_based_convergence", on |-> s,
                  arg |-> xs, outcome |-> r.outcome, value |-> r.value]
  /\ UNCHANGED <<som, ckpt, heb, buf>>

ClassLabels == {0, 1}

SOM_class_compactness(s) ==
  /\ som[s].built
  /\ \E xs \in VectorLists(som[s].dim), train_split \in BOOLEAN :
       \E ys \in [1..Len(xs) -> ClassLabels] :
         \E r \in {class_compactness_on(som[s], xs, ys, train_split)} :
            /\ som' = [som EXCEPT ![s] = r.st]
            /\ ret' = [op |-> "SOM_class_compactness", on |-> s,
                       arg |-> <<xs, ys, train_split>>,
                       outcome |-> r.outcome, value |-> r.value]
  /\ UNCHANGED <<ckpt, heb, buf>>

SOM_restore_trained(s) ==
  /\ som[s].built
  /\ \E w \in CkptContents(som[s], ckpt[s]) :
       LET r == restore_trained(som[s], ckpt[s].present, w)
       IN /\ som' = set_on_instance(som, s, r.st)
          /\ ckpt' = IF r.outcome = "ok" /\ r.value
                     THEN [ckpt EXCEPT ![s] = [present |-> TRUE, data |-> w]]
                     ELSE ckpt
          /\ ret' = [op |-> "SOM_restore_trained", on |-> s, arg |-> <<>>,
                     outcome |-> r.outcome, value |-> r.value]
  /\ UNCHANGED <<heb, buf>>

SOM_get_BMU(s) ==
  /\ som[s].built
  /\ \E x \in Vectors(som[s].dim) :
       LET r == get_BMU(som[s], x)
       IN ret' = [op |-> "SOM_get_BMU", on |-> s, arg |-> x,
                  outcome |-> r.outcome, value |-> r.value]
  /\ UNCHANGED <<som, ckpt, heb, buf>>

SOM_map_vects(s) ==
  /\ som[s].built
  /\ \E vects \in VectorLists(som[s].dim) :
       LET r == map_vects(som[s], vects)
       IN ret' = [op |-> "SOM_map_vects", on |-> s, arg |-> vects,
                  outcome |-> r.outcome, value |-> r.value]
  /\ UNCHANGED <<som, ckpt, heb, buf>>

SOM_get_activations(s) ==
  /\ som[s].built
  /\ \E x \in Vectors(som[s].dim), normalize \in BOOLEAN, threshold \in BOOLEAN,
        mode \in Modes :
       LET r == get_activations(som[s], x, normalize, threshold, mode)
       IN ret' = [op |-> "SOM_get_activations", on |-> s,
                  arg |-> <<x, normalize, threshold, mode>>,
                  outcome |-> r.outcome, value |-> r.value]
  /\ UNCHANGED <<som, ckpt, heb, buf>>

NoCall == [op |-> "none", on |-> "none", arg |-> <<>>, outcome |-> "none",
           value |-> NoValue]

(* ------------------------- Hebbian associator ------------------------- *)
LearningRate == 10

NoHeb ==
  [built |-> FALSE, num_neurons |-> 0, n_presentations |-> 0, n_classes |-> 0,
   has_dir |-> FALSE, weights |-> [num |-> <<>>, den |-> 1], is_array |-> FALSE,
   trained |-> FALSE, sess_open |-> FALSE]

(* tf.random_normal([N, N], mean=1/N, stddev=1/sqrt(1000 N)): entries near *)
(* 1/N, all positive; the value of an entry is num / den                   *)
hebbian_random_normal(N, seed) ==
  [num |-> [i \in 1..N |-> [j \in 1..N |->
              IF (i + seed * j) % 2 = 0 THEN (Unit \div N) + (Unit \div (40 * N))
              ELSE (Unit \div N) - (Unit \div (40 * N))]],
   den |-> Unit]

(* a variant that compares the neuron counts only *)
same_neuron_count(a, v) == a.m * a.n = v.m * v.n

(* line 18: assert som_a._m == som_v._m and som_a._n == som_v._n *)
same_grid(a, v) == a.m = v.m /\ a.n = v.n

Hebbian_new(a, v, n_presentations, n_classes, has_dir, seed) ==
  [built |-> TRUE, num_neurons |-> a.m * a.n,
   n_presentations |-> n_presentations, n_classes |-> n_classes,
   has_dir |-> has_dir, weights |-> hebbian_random_normal(a.m * a.n, seed),
   is_array |-> FALSE, trained |-> FALSE, sess_open |-> TRUE]

(* a variant that drops the comparison with n_presentations * n_classes *)
coherent_lengths_only(len_a, len_v, n_presentations, n_classes) == len_a = len_v

(* line 67: len(input_a) == len(input_v) == n_presentations * n_classes *)
coherent(len_a, len_v, n_presentations, n_classes) ==
  len_a = len_v /\ len_v = n_presentations * n_classes

MatHasNaN(M) == \E i \in 1..Len(M) : \E j \in 1..Len(M[i]) : IsSpecial(M[i][j])
MatSum(M) == SeqSum([i \in 1..Len(M) |-> SeqSum(M[i])])

(* line 44: delta = 1 - exp(-learning_rate * outer(activation_a, activation_v)) *)
hebbian_delta(act_a, act_v) ==
  [i \in 1..Len(act_a) |-> [j \in 1..Len(act_v) |->
      IF IsSpecial(act_a[i]) \/ IsSpecial(act_v[j]) THEN NaN
      ELSE Unit - ExpNeg(RoundDiv(LearningRate * act_a[i] * act_v[j] * 10, Unit * Unit))]]

(* line 45-46: weights + delta, the delta counted in thousandths *)
hebbian_add(W, D) ==
  IF W.den = Unit
  THEN [num |-> [i \in 1..Len(W.num) |-> [j \in 1..Len(W.num[i]) |->
                   IF IsSpecial(W.num[i][j]) \/ IsSpecial(D[i][j]) THEN NaN
                   ELSE W.num[i][j] + D[i][j]]],
        den |-> Unit]
  ELSE [num |-> [i \in 1..Len(W.num) |-> [j \in 1..Len(W.num[i]) |->
                   IF IsSpecial(W.num[i][j]) \/ IsSpecial(D[i][j]) THEN NaN
                   ELSE W.num[i][j] * Unit + D[i][j] * W.den]],
        den |-> W.den * Unit]

(* lines 85-89: every entry divided by the sum of all entries *)
hebbian_normalize(W) ==
  IF MatHasNaN(W.num)
  THEN [num |-> [i \in 1..Len(W.num) |-> [j \in 1..Len(W.num[i]) |-> NaN]], den |-> 1]
  ELSE IF MatSum(W.num) = 0
  THEN [num |-> [i \in 1..Len(W.num) |-> [j \in 1..Len(W.num[i]) |->
                   IF W.num[i][j] = 0 THEN NaN ELSE Inf]], den |-> 1]
  ELSE [num |-> W.num, den |-> MatSum(W.num)]

(* lines 74-82: the presentations from the k-th on, each adding its delta *)
RECURSIVE present(_, _, _, _, _, _)
present(W, a, v, input_a, input_v, k) ==
  IF k > Len(input_a) THEN W
  ELSE present(hebbian_add(W,
                 hebbian_delta(get_activations(a, input_a[k], TRUE, TRUE, "exp").value[1],
                               get_activations(v, input_v[k], TRUE, TRUE, "exp").value[1])),
               a, v, input_a, input_v, k + 1)

Hebbian_train_result(h, a, v, input_a, input_v) ==
  LET closed == [h EXCEPT !.sess_open = FALSE]
  IN
  IF ~coherent(Len(input_a), Len(input_v), h.n_presentations, h.n_classes)
  THEN [h |-> h, outcome |-> "AssertionError", save |-> FALSE]
  ELSE IF Len(input_a) > 0 /\ (~a.has_snapshot \/ ~v.has_snapshot)
  THEN [h |-> closed, outcome |-> "AttributeError", save |-> FALSE]
  ELSE IF ~h.sess_open
  THEN [h |-> closed, outcome |-> "RuntimeError", save |-> FALSE]
  ELSE [h |-> [closed EXCEPT
                 !.weights = hebbian_normalize(present(h.weights, a, v, input_a, input_v, 1)),
                 !.trained = TRUE,
                 !.is_array = TRUE],
        outcome |-> "ok", save |-> h.has_dir]

(* lines 107-118; the trained flag is not touched *)
Hebbian_restore_result(h, ck, W) ==
  IF ~h.has_dir THEN [h |-> h, outcome |-> "TypeError", value |-> FALSE]
  ELSE IF ~ck.present THEN [h |-> h, outcome |-> "ok", value |-> FALSE]
  ELSE IF ~h.sess_open THEN [h |-> h, outcome |-> "RuntimeError", value |-> FALSE]
  ELSE [h |-> [h EXCEPT !.weights = W, !.is_array = TRUE, !.sess_open = FALSE],
        outcome |-> "ok", value |-> TRUE]

(* np.argmax: the first NaN if there is one, else the first maximum (1-based) *)
ArgMaxFirst(f) ==
  IF \E i \in 1..Len(f) : f[i] = NaN
  THEN CHOOSE i \in 1..Len(f) : f[i] = NaN /\ \A j \in 1..(i - 1) : f[j] # NaN
  ELSE CHOOSE i \in 1..Len(f) :
         /\ \A j \in 1..Len(f) : f[j] <= f[i]
         /\ \A j \in 1..(i - 1) : f[j] < f[i]

(* lines 149-153: weights.T x activation for source 'a', weights x activation *)
(* for source 'v'; numerators only, the denominator is common and positive  *)
target_activation(W, act, source_som) ==
  IF MatHasNaN(W.num) \/ \E i \in 1..Len(act) : IsSpecial(act[i])
  THEN [t \in 1..Len(W.num) |-> NaN]
  ELSE [t \in 1..Len(W.num) |->
          SeqSum([i \in 1..Len(act) |->
                    (IF source_som = "a" THEN W.num[i][t] ELSE W.num[t][i]) * act[i]])]

(* lines 142-162, given what get_activations of line 141 returned *)
propagate_activation(h, got, source_som) ==
  IF got.outcome # "ok" THEN [outcome |-> got.outcome, value |-> NoValue]
  ELSE IF ~h.is_array
  THEN [outcome |-> IF source_som = "a" THEN "AttributeError" ELSE "TypeError",
        value |-> NoValue]
  ELSE [outcome |-> "ok",
        value |-> <<ArgMaxFirst(got.value[1]) - 1,
                    ArgMaxFirst(target_activation(h.weights, got.value[1], source_som)) - 1>>]

(* a variant that looks at the tag only after the activation is computed *)
get_bmus_propagate_late_check(h, a, v, x, source_som) ==
  LET got == get_activations(IF source_som = "v" THEN v ELSE a, x, TRUE, TRUE, "exp")
  IN IF got.outcome = "ok" /\ source_som \notin {"a", "v"}
     THEN [outcome |-> "ValueError", value |-> NoValue]
     ELSE propagate_activation(h, got, source_som)

get_bmus_propagate(h, a, v, x, source_som) ==
  IF source_som \notin {"a", "v"} THEN [outcome |-> "ValueError", value |-> NoValue]
  ELSE propagate_activation(h,
         get_activations(IF source_som = "v" THEN v ELSE a, x, TRUE, TRUE, "exp"),
         source_som)

(* np.dot(target_bmu_weights, xi_target), in hundredths *)
Dot(w, x) == SeqSum([c \in 1..Min2(Len(w), Len(x)) |-> w[c] * x[c]])

(* lines 164-249, img_path=None: the accuracy is value[1] / value[2] *)
evaluate(h, a, v, X_a, X_v, y_a, y_v, source) ==
  LET X_source == IF source = "v" THEN X_v ELSE X_a
      X_target == IF source = "v" THEN X_a ELSE X_v
      y_source == IF source = "v" THEN y_v ELSE y_a
      y_target == IF source = "v" THEN y_a ELSE y_v
      target_som == IF source = "v" THEN a ELSE v
      n == Min2(Len(X_source), Len(y_source))
      nt == Min2(Len(X_target), Len(y_target))
      prop(k) == get_bmus_propagate(h, a, v, X_source[k], source)
      target_activations(target_bmu_weights) ==
        [i \in 1..nt |-> Dot(target_bmu_weights, X_target[i])]
      yi_pred(k) ==
        y_target[ArgMaxFirst(target_activations(target_som.weightages[prop(k).value[2] + 1]))]
      correct == Cardinality({k \in 1..n : yi_pred(k) = y_source[k]})
  IN IF source \notin {"a", "v"} THEN [outcome |-> "ValueError", value |-> NoValue]
     ELSE IF n = 0 THEN [outcome |-> "ZeroDivisionError", value |-> NoValue]
     ELSE IF prop(1).outcome # "ok" THEN [outcome |-> prop(1).outcome, value |-> NoValue]
     ELSE IF ~target_som.has_snapshot THEN [outcome |-> "AttributeError", value |-> NoValue]
     ELSE IF nt = 0 THEN [outcome |-> "ValueError", value |-> NoValue]
     ELSE [outcome |-> "ok", value |-> <<correct, n>>]

(* ---------------------- Hebbian associator actions -------------------- *)
MaxPres == 2
MaxClasses == 1

InputLists(d) == UNION {[1..k -> Vectors(d)] : k \in 0..MaxLen}

HebCkptContents(h, ck) ==
  IF ck.data # <<>> THEN {ck.data}
  ELSE {hebbian_normalize(hebbian_random_normal(h.num_neurons, seed)) : seed \in 0..MaxSeed}

Hebbian_init ==
  /\ ~heb.built
  /\ som["a"].built /\ som["v"].built
  /\ \E n_presentations \in 1..MaxPres, n_classes \in 1..MaxClasses,
        has_dir \in BOOLEAN, seed \in 0..MaxSeed :
       IF same_grid(som["a"], som["v"])
       THEN /\ heb' = Hebbian_new(som["a"], som["v"], n_presentations, n_classes,
                                  has_dir, seed)
            /\ ret' = [op |-> "Hebbian_init", on |-> "h",
                       arg |-> <<n_presentations, n_classes>>,
                       outcome |-> "ok", value |-> NoValue]
       ELSE /\ heb' = heb
            /\ ret' = [op |-> "Hebbian_init", on |-> "h",
                       arg |-> <<n_presentations, n_classes>>,
                       outcome |-> "AssertionError", value |-> NoValue]
  /\ UNCHANGED <<som, ckpt, buf>>

(* the inputs of a call: when the lengths fail the check of line 67 the    *)
(* vectors are never read, and one list of each length stands for all     *)
TrainInputs(h, d_a, d_v) ==
  {p \in InputLists(d_a) \X InputLists(d_v) :
     \/ coherent(Len(p[1]), Len(p[2]), h.n_presentations, h.n_classes)
     \/ /\ \A k \in 1..Len(p[1]) : \A c \in 1..d_a : p[1][k][c] = 0
        /\ \A k \in 1..Len(p[2]) : \A c \in 1..d_v : p[2][k][c] = 0}

Hebbian_train ==
  /\ heb.built
  /\ \E p \in TrainInputs(heb, som["a"].dim, som["v"].dim) :
       \E r \in {Hebbian_train_result(heb, som["a"], som["v"], p[1], p[2])} :
          /\ heb' = r.h
          /\ ckpt' = IF r.save
                     THEN [ckpt EXCEPT !["h"] = [present |-> TRUE, data |-> r.h.weights]]
                     ELSE ckpt
          /\ ret' = [op |-> "Hebbian_train", on |-> "h",
                     arg |-> <<Len(p[1]), Len(p[2])>>,
                     outcome |-> r.outcome, value |-> NoValue]
  /\ UNCHANGED <<som, buf>>

Hebbian_restore_trained ==
  /\ heb.built
  /\ \E W \in HebCkptContents(heb, ckpt["h"]) :
       LET r == Hebbian_restore_result(heb, ckpt["h"], W)
       IN /\ heb' = r.h
          /\ ckpt' = IF r.outcome = "ok" /\ r.value
                     THEN [ckpt EXCEPT !["h"] = [present |-> TRUE, data |-> W]]
                     ELSE ckpt
          /\ ret' = [op |-> "Hebbian_restore_trained", on |-> "h", arg |-> <<>>,
                     outcome |-> r.outcome, value |-> r.value]
  /\ UNCHANGED <<som, buf>>

SourceTags == {"a", "v", "x"}

Hebbian_get_bmus_propagate ==
  /\ heb.built
  /\ \E source_som \in SourceTags :
       \E x \in Vectors(IF source_som = "v" THEN som["v"].dim ELSE som["a"].dim) :
         LET r == get_bmus_propagate(heb, som["a"], som["v"], x, source_som)
         IN ret' = [op |-> "Hebbian_get_bmus_propagate", on |-> "h",
                    arg |-> <<x, source_som>>,
                    outcome |-> r.outcome, value |-> r.value]
  /\ UNCHANGED <<som, ckpt, heb, buf>>

MaxEval == 2

(* the lengths of the two example lists of an evaluate call: one length   *)
(* for both, or one audio example and no visual one; with a tag that is    *)
(* refused the lists are never read                                        *)
EvalLengths(source) ==
  IF source \notin {"a", "v"} THEN {<<0, 0>>}
  ELSE {q \in (0..MaxEval) \X (0..MaxEval) : q[2] = q[1] \/ (q[1] = 1 /\ q[2] = 0)}

(* labels in order, or all the same *)
LabelLists(k) == {[i \in 1..k |-> i - 1], [i \in 1..k |-> 0]}

(* every source example has its label on exactly one target example *)
Aligned(y_source, y_target) ==
  /\ Len(y_source) = Len(y_target)
  /\ \A i, j \in 1..Len(y_target) : i # j => y_target[i] # y_target[j]
  /\ \A i, j \in 1..Len(y_source) : i # j => y_source[i] # y_source[j]
  /\ \A i \in 1..Len(y_source) : \E j \in 1..Len(y_target) : y_target[j] = y_source[i]

Hebbian_evaluate ==
  /\ heb.built
  /\ \E source \in SourceTags : \E p \in EvalLengths(source) :
       \E X_a \in [1..p[1] -> Vectors(som["a"].dim)],
          X_v \in [1..p[2] -> Vectors(som["v"].dim)],
          y_v \in LabelLists(p[2]) :
         \E y_a \in {[i \in 1..p[1] |-> i - 1]} :
           \E r \in {evaluate(heb, som["a"], som["v"], X_a, X_v, y_a, y_v, source)} :
             LET y_source == IF source = "v" THEN y_v ELSE y_a
                 y_target == IF source = "v" THEN y_a ELSE y_v
             IN ret' = [op |-> "Hebbian_evaluate", on |-> "h",
                        arg |-> <<Len(y_source), source, Len(y_target),
                                  Aligned(y_source, y_target)>>,
                        outcome |-> r.outcome, value |-> r.value]
  /\ UNCHANGED <<som, ckpt, heb, buf>>

(* --------------------------- specifications --------------------------- *)
NoBuf == [x0 |-> <<>>, x |-> <<>>, thr |-> 0, applied |-> 0, once |-> <<>>]

(* the life of one engine; the second engine is not constructed here *)
Engines == {"a"}

Init ==
  /\ som = [s \in SOMs |-> NoSOM]
  /\ ckpt \in [SOMs \cup {"h"} -> {NoCkpt, OnDisk}]
  /\ \A d \in (SOMs \cup {"h"}) \ Engines : ckpt[d] = NoCkpt
  /\ heb = NoHeb
  /\ ret = NoCall
  /\ buf = NoBuf

Next ==
  \E s \in Engines :
    \/ SOM_init(s)
    \/ SOM_train(s)
    \/ SOM_restore_trained(s)
    \/ SOM_get_BMU(s)
    \/ SOM_map_vects(s)
    \/ SOM_get_activations(s)

Spec == Init /\ [][Next]_vars

(* the associator over two engines that were constructed and restored from *)
(* their checkpoints                                                       *)
RestoredEngines ==
  {restore_trained(SOM_new(m, n, d, 0), TRUE, random_normal(m * n, d, seed)).st :
     m \in 1..MaxM, n \in 1..MaxN, d \in 1..MaxFeat, seed \in 0..MaxSeed}

InitHeb ==
  /\ som \in [SOMs -> RestoredEngines]
  /\ \E found \in {NoCkpt, OnDisk} :
       ckpt = [d \in SOMs \cup {"h"} |->
                 IF d \in SOMs THEN [present |-> TRUE, data |-> som[d].weightages]
                 ELSE found]
  /\ heb = NoHeb
  /\ ret = NoCall
  /\ buf = NoBuf

NextHeb ==
  \/ Hebbian_init
  \/ Hebbian_train
  \/ Hebbian_restore_trained
  \/ Hebbian_get_bmus_propagate

SpecHeb == InitHeb /\ [][NextHeb]_vars

(* the life of one engine whose training data may hold NaN features *)
NextNaN ==
  \E s \in Engines :
    \/ SOM_init(s)
    \/ SOM_train_nan(s)
    \/ SOM_restore_trained(s)

SpecNaN == Init /\ [][NextNaN]_vars

(* constructions with any arguments, and what the engine then does *)
NextCtor ==
  \E s \in Engines :
    \/ SOM_init_any(s)
    \/ SOM_restore_trained(s)
    \/ SOM_get_BMU(s)

SpecCtor == Init /\ [][NextCtor]_vars

(* the convergence statistic asked of an engine, fresh or restored *)
NextConv ==
  \E s \in Engines :
    \/ SOM_init(s)
    \/ SOM_population_based_convergence(s)
    \/ SOM_restore_trained(s)

SpecConv == Init /\ [][NextConv]_vars

(* an engine that is constructed, restored and then queried and restored   *)
(* again                                                                   *)
NextLife ==
  \E s \in Engines :
    \/ SOM_init(s)
    \/ SOM_population_based_convergence(s)
    \/ SOM_restore_trained(s)
    \/ SOM_get_BMU(s)
    \/ SOM_get_activations(s)
    \/ SOM_map_vects(s)

SpecLife == Init /\ [][NextLife]_vars

(* class compactness asked of an engine, fresh or restored *)
NextCompact ==
  \E s \in Engines :
    \/ SOM_init(s)
    \/ SOM_class_compactness(s)
    \/ SOM_restore_trained(s)

SpecCompact == Init /\ [][NextCompact]_vars

(* two engines side by side, constructed, trained and restored in any     *)
(* order                                                                   *)
InitTwo ==
  /\ som = [s \in SOMs |-> NoSOM]
  /\ ckpt \in [SOMs \cup {"h"} -> {NoCkpt, OnDisk}]
  /\ ckpt["h"] = NoCkpt
  /\ heb = NoHeb
  /\ ret = NoCall
  /\ buf = NoBuf

NextTwo ==
  \E s \in SOMs :
    \/ SOM_init(s)
    \/ SOM_train_single(s)
    \/ SOM_restore_trained(s)

SpecTwo == InitTwo /\ [][NextTwo]_vars

(* queries on an associator that was constructed over two engines, fresh  *)
(* or restored, and then left as constructed or trained on one pair        *)
FreshEngines == {SOM_new(m, n, d, 0) : m \in 1..MaxM, n \in 1..MaxN, d \in 1..MaxFeat}

AssociatorsOver(a, v) ==
  LET h0 == Hebbian_new(a, v, 1, 1, FALSE, 0)
  IN {h0} \cup {Hebbian_train_result(h0, a, v, <<x_a>>, <<x_v>>).h :
                  x_a \in Vectors(a.dim), x_v \in Vectors(v.dim)}

InitEval ==
  /\ som \in [SOMs -> RestoredEngines \cup FreshEngines]
  /\ same_grid(som["a"], som["v"])
  /\ ckpt = [d \in SOMs \cup {"h"} |->
               IF d \in SOMs /\ som[d].has_snapshot
               THEN [present |-> TRUE, data |-> som[d].weightages]
               ELSE NoCkpt]
  /\ heb \in AssociatorsOver(som["a"], som["v"])
  /\ ret = NoCall
  /\ buf = NoBuf

NextEval ==
  \/ Hebbian_get_bmus_propagate
  \/ Hebbian_evaluate

SpecEval == InitEval /\ [][NextEval]_vars

(* propagation through an associator whose audio engine, a 1 x 2 grid over *)
(* PropFeat features, was restored from a checkpoint of an earlier run     *)
PropFeat == 2
CheckpointValues == {0, 6, 10}

PropEngines ==
  {restore_trained(SOM_new(1, 2, PropFeat, 0), TRUE, w).st :
     w \in [1..2 -> [1..PropFeat -> CheckpointValues]]}

InitProp ==
  /\ som \in [SOMs -> PropEngines]
  /\ som["v"].weightages = random_normal(2, PropFeat, 0)
  /\ ckpt = [d \in SOMs \cup {"h"} |->
               IF d \in SOMs THEN [present |-> TRUE, data |-> som[d].weightages]
               ELSE NoCkpt]
  /\ heb \in AssociatorsOver(som["a"], som["v"])
  /\ ret = NoCall
  /\ buf = NoBuf

NextProp ==
  \/ Hebbian_get_bmus_propagate
  \/ \E s \in SOMs : SOM_get_BMU(s)

SpecProp == InitProp /\ [][NextProp]_vars

(* the caller's activation array under repeated thresholding *)
MaxApply == 2
ActivationValues == {0, 300, 600, 1000, NaN, Inf}
Thresholds == {0 - 500, 0, 600, 1500}

InitThr ==
  /\ som = [s \in SOMs |-> NoSOM]
  /\ ckpt = [d \in SOMs \cup {"h"} |-> NoCkpt]
  /\ heb = NoHeb
  /\ ret = NoCall
  /\ \E k \in 1..MaxLen : \E x \in [1..k -> ActivationValues], thr \in Thresholds :
       buf = [x0 |-> x, x |-> x, thr |-> thr, applied |-> 0, once |-> <<>>]

Apply_threshold ==
  /\ buf.applied < MaxApply
  /\ LET y == threshold_activation(buf.x, buf.thr)
     IN buf' = [buf EXCEPT !.x = y, !.applied = buf.applied + 1,
                           !.once = IF buf.applied = 0 THEN y ELSE buf.once]
  /\ ret' = [op |-> "threshold_activation", on |-> "h", arg |-> <<buf.x, buf.thr>>,
             outcome |-> "ok", value |-> threshold_activation(buf.x, buf.thr)]
  /\ UNCHANGED <<som, ckpt, heb>>

NextThr == Apply_threshold

SpecThr == InitThr /\ [][NextThr]_vars

(* ------------------------------- claims ------------------------------- *)

(* C1: a SOM train call that meets no NaN delta runs all n_iterations      *)
(* epochs and returns with the engine's trained flag true                  *)
C1_TrainCompletes ==
  (ret.op = "SOM_train" /\ ret.outcome # "AssertionError") =>
     /\ ret.outcome = "ok"
     /\ ret.value[1] = NIterations
     /\ som[ret.on].trained

(* C2: a query (get_BMU, map_vects, get_activations) on an engine whose    *)
(* trained flag is false fails: it does not return a result                *)
C2_UntrainedQueryFails ==
  (ret.op \in {"SOM_get_BMU", "SOM_map_vects", "SOM_get_activations"}
     /\ ~som[ret.on].trained) => ret.outcome # "ok"

(* C3: every constructed engine has m*n weight vectors and m*n locations,  *)
(* one grid cell per neuron, before and after training epochs, and the     *)
(* snapshot the queries read has the same m*n entries                      *)
C3_GridAligned ==
  \A s \in SOMs : som[s].built =>
    LET st == som[s]
        N == st.m * st.n
    IN /\ Len(st.weightage_vects) = N
       /\ Len(st.location_vects) = N
       /\ \A k \in 1..Len(st.location_vects) :
             /\ st.location_vects[k][1] \in 0..(st.m - 1)
             /\ st.location_vects[k][2] \in 0..(st.n - 1)
             /\ \A l \in 1..Len(st.location_vects) :
                   l # k => st.location_vects[l] # st.location_vects[k]
       /\ st.has_snapshot => /\ Len(st.weightages) = N
                             /\ Len(st.locations) = N
                             /\ st.locations = st.location_vects

(* a 2 x 2 engine after a training epoch has updated its weights *)
C3_AfterEpoch ==
  /\ ret.op = "SOM_train"
  /\ som["a"].has_snapshot
  /\ som["a"].m = 2 /\ som["a"].n = 2
  /\ som["a"].weightages \notin {random_normal(4, som["a"].dim, seed) : seed \in 0..MaxSeed}

(* C4: after Hebbian train returns, the entries of the association matrix  *)
(* sum to 1                                                                *)
C4_TrainSumsToOne ==
  (ret.op = "Hebbian_train" /\ ret.outcome = "ok") =>
     /\ ~MatHasNaN(heb.weights.num)
     /\ MatSum(heb.weights.num) = heb.weights.den

(* C5: a Hebbian train call whose two input lengths and n_presentations *  *)
(* n_classes are not all equal fails, and leaves the association matrix,   *)
(* the trained flag and the checkpoint as they were                        *)
C5_IncoherentTrainFails ==
  [][(/\ ret'.op = "Hebbian_train"
      /\ ~(/\ ret'.arg[1] = ret'.arg[2]
           /\ ret'.arg[2] = heb.n_presentations * heb.n_classes))
     => (ret'.outcome = "AssertionError" /\ heb' = heb /\ ckpt' = ckpt)]_vars

(* a call with two lists of the same length that is not n_presentations *  *)
(* n_classes was refused                                                   *)
C5_RefusedEqualLengths ==
  /\ ret.op = "Hebbian_train"
  /\ ret.outcome = "AssertionError"
  /\ ret.arg[1] = ret.arg[2]
  /\ ret.arg[1] > 0
  /\ ~heb.trained

(* C6: constructing the associator over engines whose (m, n) differ in     *)
(* either component fails and yields no associator; an associator that     *)
(* exists has num_neurons = m*n of both engines                            *)
C6_GridMismatchRejected ==
  /\ (ret.op = "Hebbian_init" /\ (som["a"].m # som["v"].m \/ som["a"].n # som["v"].n))
       => (ret.outcome = "AssertionError" /\ ~heb.built)
  /\ heb.built => /\ heb.num_neurons = som["a"].m * som["a"].n
                  /\ heb.num_neurons = som["v"].m * som["v"].n

(* construction was refused for two grids of the same neuron count *)
C6_RefusedTransposed ==
  /\ ret.op = "Hebbian_init"
  /\ ret.outcome = "AssertionError"
  /\ ~heb.built
  /\ som["a"].m * som["a"].n = som["v"].m * som["v"].n

(* C7: SOM restore_trained returns false without raising when no           *)
(* checkpoint exists; when one exists it loads the weights, sets the       *)
(* trained flag and returns true                                           *)
C7_RestoreContract ==
  ret.op = "SOM_restore_trained" =>
    IF ckpt[ret.on].present
    THEN /\ ret.outcome = "ok"
         /\ ret.value = TRUE
         /\ som[ret.on].trained
         /\ som[ret.on].weightages = ckpt[ret.on].data
    ELSE ret.outcome = "ok" /\ ret.value = FALSE

(* C8: whenever Hebbian restore_trained returns true, the associator's     *)
(* trained flag is true and the matrix is the restored one                 *)
C8_RestoreSetsTrained ==
  (ret.op = "Hebbian_restore_trained" /\ ret.outcome = "ok" /\ ret.value)
     => (heb.trained /\ heb.weights = ckpt["h"].data)

(* C9: get_activations with normalize=true returns values in [0,1] with    *)
(* maximum 1 and minimum 0, and all zeros when the raw activations are all *)
(* equal                                                                   *)
C9_NormalizedRange ==
  (ret.op = "SOM_get_activations" /\ ret.outcome = "ok" /\ ret.arg[2]) =>
    LET a == ret.value[1]
        raw == get_activations(som[ret.on], ret.arg[1], FALSE, FALSE, ret.arg[4]).value[1]
    IN IF \A i, j \in 1..Len(raw) : raw[i] = raw[j]
       THEN \A i \in 1..Len(a) : a[i] = 0
       ELSE /\ \A i \in 1..Len(a) : a[i] \in 0..Unit
            /\ \E i \in 1..Len(a) : a[i] = Unit
            /\ \E i \in 1..Len(a) : a[i] = 0

(* C10: thresholding an activation array again leaves it as the first      *)
(* thresholding left it                                                    *)
C10_ThresholdIdempotent == buf.applied >= 1 => buf.x = buf.once

(* an array that the first thresholding changed has been thresholded twice *)
C10_AppliedTwice ==
  /\ buf.applied >= 2
  /\ buf.once # buf.x0
  /\ \E i \in 1..Len(buf.x) : buf.x[i] > 0

(* C11: for a fixed weight grid, get_BMU(v) and map_vects([v]) pick the    *)
(* lowest-index neuron among those at least Euclidean distance from v; a   *)
(* repeated call gives the same index and the two operations agree         *)
C11_LowestIndexBMU ==
  LET st == som[ret.on]
      least(x, k) ==
        /\ k \in 1..Len(st.weightages)
        /\ \A j \in 1..Len(st.weightages) :
              SqDist(x, st.weightages[k]) <= SqDist(x, st.weightages[j])
        /\ \A j \in 1..(k - 1) :
              SqDist(x, st.weightages[j]) > SqDist(x, st.weightages[k])
  IN /\ (ret.op = "SOM_get_BMU" /\ ret.outcome = "ok") =>
          /\ least(ret.arg, ret.value[1] + 1)
          /\ ret.value[2] = st.locations[ret.value[1] + 1]
          /\ get_BMU(st, ret.arg).value = ret.value
          /\ st.trained => map_vects(st, <<ret.arg>>).value = <<ret.value[2]>>
     /\ (ret.op = "SOM_map_vects" /\ ret.outcome = "ok") =>
          \A k \in 1..Len(ret.arg) :
             \E i \in 1..Len(st.weightages) :
                /\ least(ret.arg[k], i)
                /\ ret.value[k] = st.locations[i]
                /\ get_BMU(st, ret.arg[k]).value = <<i - 1, ret.value[k]>>

(* get_BMU answered on a trained engine where two neurons tie at the least *)
(* distance and a third is farther away                                    *)
C11_TieBroken ==
  /\ ret.op = "SOM_get_BMU" /\ ret.outcome = "ok"
  /\ som[ret.on].trained
  /\ LET W == som[ret.on].weightages
         b == ret.value[1] + 1
     IN /\ \E j \in 1..Len(W) : j # b /\ SqDist(ret.arg, W[j]) = SqDist(ret.arg, W[b])
        /\ \E j \in 1..Len(W) : SqDist(ret.arg, W[j]) > SqDist(ret.arg, W[b])

(* C12: evaluate returns an accuracy in [0,1], and exactly 1 whenever the  *)
(* source and target examples are aligned one-to-one by label              *)
C12_AccuracyOfAligned ==
  (ret.op = "Hebbian_evaluate" /\ ret.outcome = "ok") =>
     /\ ret.value[1] \in 0..ret.value[2]
     /\ ret.arg[4] => ret.value[1] = ret.value[2]

(* C13: get_bmus_propagate and evaluate called with a tag other than 'a'   *)
(* or 'v' fail with ValueError whatever the state of the engines (no       *)
(* activation is computed first), and leave the associator and both        *)
(* engines as they were                                                    *)
C13_BadTagRefused ==
  [][(/\ ret'.op \in {"Hebbian_get_bmus_propagate", "Hebbian_evaluate"}
      /\ ret'.arg[2] \notin {"a", "v"})
     => (ret'.outcome = "ValueError" /\ heb' = heb /\ som' = som)]_vars

(* a propagate call with a wrong tag was refused on engines that have no   *)
(* weights to compute an activation from                                   *)
C13_RefusedOnFreshEngines ==
  /\ ret.op = "Hebbian_get_bmus_propagate"
  /\ ret.arg[2] \notin {"a", "v"}
  /\ ret.outcome = "ValueError"
  /\ ~som["a"].has_snapshot /\ ~som["v"].has_snapshot

(* C14: a NaN weight delta is never applied: training aborts on it, so an  *)
(* engine's weights never hold NaN, trained or not                         *)
C14_NoNaNWeights ==
  \A s \in SOMs : som[s].built =>
     /\ ~HasNaN(som[s].weightage_vects)
     /\ som[s].has_snapshot => ~HasNaN(som[s].weightages)

(* C15: constructing, training or restoring one engine changes neither the *)
(* trained flag of the other engine nor whether its map_vects is refused   *)
C15_OwnTrainedFlag ==
  [][\A s \in SOMs :
       (ret'.op \in {"SOM_init", "SOM_train", "SOM_restore_trained"}
          /\ ret'.on # s /\ som[s].built)
       => /\ som'[s].trained = som[s].trained
          /\ map_vects(som'[s], <<>>).outcome = map_vects(som[s], <<>>).outcome]_vars

(* one engine was restored while the other, constructed before, stays      *)
(* untrained and still refuses map_vects                                   *)
C15_OneRestoredOtherNot ==
  /\ ret.op = "SOM_restore_trained" /\ ret.on = "a" /\ ret.outcome = "ok"
  /\ som["a"].trained
  /\ som["v"].built /\ ~som["v"].trained
  /\ map_vects(som["v"], <<>>).outcome = "ValueError"

(* C16: a construction in which m, n or d is zero or negative fails and    *)
(* leaves no engine                                                        *)
C16_NonPositiveRefused ==
  (ret.op = "SOM_init" /\ \E i \in 1..3 : ret.arg[i] <= 0)
  => (ret.outcome # "ok" /\ ~som[ret.on].built)

(* C17: in every epoch whose batch loop ran, the weight update was applied *)
(* once for each of the ceil(len(input_vectors) / batch_size) batches      *)
C17_EveryBatchApplied ==
  ret.op = "SOM_train" =>
    \A e \in 1..Len(ret.value[3]) :
      ret.value[3][e] = CeilDiv(ret.arg[3], BatchSize)

(* C18: a train call that is not refused has emitted one checkpoint at     *)
(* each epoch t with t mod 5 = 0, in order, and after them the final one,  *)
(* written once the trained flag was set                                   *)
C18_CheckpointSchedule ==
  (ret.op = "SOM_train" /\ ret.outcome \notin {"AssertionError", "RuntimeError"})
  => /\ ret.value[2] = [k \in 1..(CeilDiv(NIterations, 5) + 1) |->
                          IF k <= CeilDiv(NIterations, 5) THEN 5 * (k - 1)
                          ELSE NIterations]
     /\ som[ret.on].trained

(* C19: population_based_convergence returns three ratios in [0, 1], the   *)
(* third being the number of features that pass both the mean test and the *)
(* variance test over the number of features                               *)
C19_BothRatio ==
  (ret.op = "SOM_population_based_convergence" /\ ret.outcome = "ok")
  => /\ \A i \in 1..3 : ret.value[i] \in 0..ret.value[4]
     /\ ret.value[3] =
          Cardinality(mean_converged(ret.arg, som[ret.on].weightage_vects)
                        \cap var_converged(ret.arg, som[ret.on].weightage_vects))

(* C20: the source index that get_bmus_propagate returns is the index that *)
(* the source engine's get_BMU returns for the same vector; stated for the *)
(* calls in which no two neurons are equally active, where the result does *)
(* not hang on how floating point breaks a tie                             *)
C20_SourceIndexIsBMU ==
  (/\ ret.op = "Hebbian_get_bmus_propagate" /\ ret.outcome = "ok"
   /\ \A i, j \in 1..Len(som[ret.arg[2]].weightages) :
        i # j => AbsDiffSum(ret.arg[1], som[ret.arg[2]].weightages[i])
                   # AbsDiffSum(ret.arg[1], som[ret.arg[2]].weightages[j]))
  => ret.value[1] = get_BMU(som[ret.arg[2]], ret.arg[1]).value[1]

(* C21: on an engine whose trained flag is true, every further             *)
(* restore_trained or query call (get_BMU, get_activations, map_vects,     *)
(* population_based_convergence) succeeds and leaves the flag true         *)
C21_TrainedStaysUsable ==
  [][\A s \in SOMs :
       (som[s].trained /\ ret'.on = s
          /\ ret'.op \in {"SOM_restore_trained", "SOM_get_BMU", "SOM_get_activations",
                          "SOM_map_vects", "SOM_population_based_convergence"})
       => (ret'.outcome = "ok" /\ som'[s].trained)]_vars

(* C22: class_compactness returns one value per class label, and after the *)
(* call the baseline is in the cache field of the split it was called for  *)
C22_CompactnessPerClass ==
  ret.op = "SOM_class_compactness"
  => /\ ret.outcome = "ok"
     /\ Len(ret.value) = Cardinality({ret.arg[2][i] : i \in 1..Len(ret.arg[2])})
     /\ (IF ret.arg[3] THEN som[ret.on].train_inter_class_distance
         ELSE som[ret.on].test_inter_class_distance) # None

====
